---- MODULE Spec2Model ----
(***************************************************************************)
(* A model of src/src/utils.py of prime-pipeline:                          *)
(*   - convert_model, the checkpoint conversion pipeline (index            *)
(*     resolution, shard merge, key remapping, head permutation, QKV       *)
(*     fusion, checkpoint write, tokenizer copy);                          *)
(*   - permute, the rotary-layout row permutation, as a pure function;     *)
(*   - setup_device / get_device, the process-wide device handle.          *)
(*                                                                         *)
(* Weight keys are dotted names.  A key is modelled as the sequence of its *)
(* dot-separated tokens; a token made of digits is a digit run of the      *)
(* regular expression \d+.  Tensors are a shape and the flat, row-major    *)
(* sequence of their elements.  Python dicts are sequences of <<key,       *)
(* value>> pairs in insertion order, with unique keys.                     *)
(***************************************************************************)
EXTENDS Integers, Sequences, FiniteSets, TLC

VARIABLES
    \* ---- convert_model ----
    pc,                  \* position of convert_model in its code
    model_name,          \* the argument of convert_model
    config,              \* ModelArgs.from_name(model_name)
    safetensors_is_file, \* result of model_map_json_safetensors.is_file()
    pytorch_is_file,     \* result of model_map_json_pytorch.is_file()
    model_map_json,      \* the index file chosen
    bin_index,           \* the shard filenames bin_index["weight_map"].values()
    bin_files,           \* sorted(bin_files) not yet loaded
    state_dict,          \* the shard loaded last
    merged_result,       \* the merged TensorBag
    final_result,        \* the bag being renamed and fused
    remapped,            \* history: final_result as the remap loop left it
    loaded,              \* history: the shard files loaded, in order
    fused,               \* history: the wq keys the fuse loop has fused, in order
    model_pth,           \* what the run has done to <checkpoint_dir>/model.pth
    tokenizer_model,     \* what the run has done to <checkpoint_dir>/tokenizer.model
    error,               \* the exception convert_model raised, or "none"
    \* ---- permute as a pure function ----
    w,                   \* the weight being permuted
    w0,                  \* the weight before any permutation
    heads,               \* the head count permute is called with
    applied,             \* how many times permute has been applied
    \* ---- device handle ----
    _DEVICE,             \* the module global
    first_device,        \* history: what the first successful setup_device set
    returned             \* history: result of each call, in order

convertVars == <<pc, model_name, config, safetensors_is_file, pytorch_is_file,
                 model_map_json, bin_index, bin_files, state_dict, merged_result,
                 final_result, remapped, loaded, fused, model_pth,
                 tokenizer_model, error>>
permuteVars == <<w, w0, heads, applied>>
deviceVars == <<_DEVICE, first_device, returned>>
vars == <<convertVars, permuteVars, deviceVars>>

(***************************************************************************)
(* Bounds of the model.                                                    *)
(***************************************************************************)
MaxLayer == 0          \* layer indices 0..MaxLayer occur in weight keys
MaxShardKeys == 2      \* a shard file holds at most this many tensors
MaxIndexRefs == 2      \* the index names one shard file at most this often
MaxHeads == 2          \* head counts 1..MaxHeads (pure permute)
MaxHalfHeadDim == 3    \* head_dim = 2, 4, .., 2*MaxHalfHeadDim (pure permute)
MaxDim == 3            \* dim 1..MaxDim (pure permute)
MaxRank == 1           \* world.local_rank in 0..MaxRank
MaxCalls == 3          \* device calls recorded
MaxApplied == 2        \* applications of permute in a row (pure permute)

(***************************************************************************)
(* Strings.  str methods and regular expressions act on the tokens.        *)
(***************************************************************************)
\* The decimal numerals: a token t is a digit run iff it is one of these.
DigitStr == <<"0", "1", "2", "3", "4", "5", "6", "7", "8", "9">>

IsDigits(tok) == \E i \in 1..Len(DigitStr) : DigitStr[i] = tok

\* `sub in tok` for the substrings the code tests and the tokens of the model.
TokenHas(tok, sub) ==
    \/ tok = sub
    \/ sub = "wq" /\ tok = "wqkv"

\* `sub in key`
Contains(key, sub) == \E i \in 1..Len(key) : TokenHas(key[i], sub)

\* key.replace("wq", new): every occurrence of "wq" inside every token.
Replace(key, new) ==
    [i \in 1..Len(key) |->
        IF key[i] = "wq" THEN new
        ELSE IF key[i] = "wqkv" THEN
            (IF new = "wk" THEN "wkkv" ELSE IF new = "wv" THEN "wvkv" ELSE "wqkvkv")
        ELSE key[i]]

\* re.sub(r"(\d+)", "{}", key): every digit run becomes "{}".
ReSubDigits(key) ==
    [i \in 1..Len(key) |-> IF IsDigits(key[i]) THEN "{}" ELSE key[i]]

\* re.search(r"\d+", key): the first digit run, or <<>> for None.
ReSearchDigits(key) ==
    LET hits == {i \in 1..Len(key) : IsDigits(key[i])}
    IN  IF hits = {} THEN <<>>
        ELSE <<key[CHOOSE i \in hits : \A j \in hits : i <= j]>>

\* pattern.format(layer_num): the replacement field "{}" takes the argument.
Format(pattern, layer_num) ==
    [i \in 1..Len(pattern) |-> IF pattern[i] = "{}" THEN layer_num ELSE pattern[i]]

(***************************************************************************)
(* Python dicts: sequences of <<key, value>> in insertion order.           *)
(***************************************************************************)
Keys(d) == [i \in 1..Len(d) |-> d[i][1]]

KeySet(d) == {d[i][1] : i \in 1..Len(d)}

Has(d, key) == \E i \in 1..Len(d) : d[i][1] = key

\* d[key], for a key of d
Get(d, key) == d[CHOOSE i \in 1..Len(d) : d[i][1] = key][2]

\* d[key] = value: a present key keeps its place, a new key goes last.
Set(d, key, value) ==
    IF Has(d, key)
    THEN [i \in 1..Len(d) |-> IF d[i][1] = key THEN <<key, value>> ELSE d[i]]
    ELSE Append(d, <<key, value>>)

\* del d[key]
Del(d, key) == SelectSeq(d, LAMBDA e : e[1] # key)

(***************************************************************************)
(* Tensors: [rows, cols, data], data in row-major order.                   *)
(***************************************************************************)
Numel(t) == Len(t.data)

\* w.view(n_head, 2, config.head_dim // 2, dim): the 4-D view of the flat data;
\* torch raises RuntimeError unless the element counts agree.
ViewOk(t, n_head) == Numel(t) = n_head * 2 * (config.head_dim \div 2) * config.dim

View(t, n_head) ==
    LET half == config.head_dim \div 2
        dim == config.dim
    IN  [shape |-> <<n_head, 2, half, dim>>,
         at |-> [idx \in (0..(n_head - 1)) \X (0..1) \X (0..(half - 1)) \X (0..(dim - 1)) |->
                    t.data[((idx[1] * 2 + idx[2]) * half + idx[3]) * dim + idx[4] + 1]]]

\* .transpose(1, 2): axes 1 and 2 change places.
Transpose12(v) ==
    [shape |-> <<v.shape[1], v.shape[3], v.shape[2], v.shape[4]>>,
     at |-> [idx \in (0..(v.shape[1] - 1)) \X (0..(v.shape[3] - 1))
                     \X (0..(v.shape[2] - 1)) \X (0..(v.shape[4] - 1)) |->
                v.at[<<idx[1], idx[3], idx[2], idx[4]>>]]]

\* .reshape(rows, cols): the elements in row-major order of the 4-D tensor.
Reshape(v, rows, cols) ==
    LET s == v.shape
    IN  [rows |-> rows, cols |-> cols,
         data |-> [j \in 1..(rows * cols) |->
                    v.at[<<(j - 1) \div (s[2] * s[3] * s[4]),
                           ((j - 1) \div (s[3] * s[4])) % s[2],
                           ((j - 1) \div s[4]) % s[3],
                           (j - 1) % s[4]>>]]]

\* permute(w, n_head), lines 136-138 (config is the enclosing function's).
\* (a permute that swaps axes 2 and 3 instead of 1 and 2)
Transpose23(v) ==
    [shape |-> <<v.shape[1], v.shape[2], v.shape[4], v.shape[3]>>,
     at |-> [idx \in (0..(v.shape[1] - 1)) \X (0..(v.shape[2] - 1))
                     \X (0..(v.shape[4] - 1)) \X (0..(v.shape[3] - 1)) |->
                v.at[<<idx[1], idx[2], idx[4], idx[3]>>]]]

PermuteTranspose23(t, n_head) ==
    Reshape(Transpose23(View(t, n_head)), config.head_dim * n_head, config.dim)

Permute(t, n_head) ==
    Reshape(Transpose12(View(t, n_head)), config.head_dim * n_head, config.dim)

\* torch.cat([a, b, c]) along dimension 0; RuntimeError unless the other
\* dimension agrees.
CatOk(a, b, c) == a.cols = b.cols /\ b.cols = c.cols

\* (a cat that puts the value weight before the key weight)
CatQVK(a, b, c) ==
    [rows |-> a.rows + b.rows + c.rows, cols |-> a.cols, data |-> a.data \o c.data \o b.data]

Cat(a, b, c) ==
    [rows |-> a.rows + b.rows + c.rows, cols |-> a.cols, data |-> a.data \o b.data \o c.data]

(***************************************************************************)
(* The weight map, lines 119-133.  <<>> stands for None.                   *)
(***************************************************************************)
None == <<>>

weight_map ==
    (<<"model", "embed_tokens", "weight">> :> <<"tok_embeddings", "weight">>)
 @@ (<<"model", "layers", "{}", "self_attn", "q_proj", "weight">> :> <<"layers", "{}", "attention", "wq", "weight">>)
 @@ (<<"model", "layers", "{}", "self_attn", "k_proj", "weight">> :> <<"layers", "{}", "attention", "wk", "weight">>)
 @@ (<<"model", "layers", "{}", "self_attn", "v_proj", "weight">> :> <<"layers", "{}", "attention", "wv", "weight">>)
 @@ (<<"model", "layers", "{}", "self_attn", "o_proj", "weight">> :> <<"layers", "{}", "attention", "wo", "weight">>)
 @@ (<<"model", "layers", "{}", "self_attn", "rotary_emb", "inv_freq">> :> None)
 @@ (<<"model", "layers", "{}", "mlp", "gate_proj", "weight">> :> <<"layers", "{}", "feed_forward", "w1", "weight">>)
 @@ (<<"model", "layers", "{}", "mlp", "up_proj", "weight">> :> <<"layers", "{}", "feed_forward", "w3", "weight">>)
 @@ (<<"model", "layers", "{}", "mlp", "down_proj", "weight">> :> <<"layers", "{}", "feed_forward", "w2", "weight">>)
 @@ (<<"model", "layers", "{}", "input_layernorm", "weight">> :> <<"layers", "{}", "attention_norm", "weight">>)
 @@ (<<"model", "layers", "{}", "post_attention_layernorm", "weight">> :> <<"layers", "{}", "ffn_norm", "weight">>)
 @@ (<<"model", "norm", "weight">> :> <<"norm", "weight">>)
 @@ (<<"lm_head", "weight">> :> <<"output", "weight">>)

(***************************************************************************)
(* Exceptions: the type, the key or path the exception names (<<>> when it *)
(* names none), and the stage of convert_model that raised it.             *)
(***************************************************************************)
NoError == [type |-> "none", key |-> <<>>, stage |-> "none"]

Raise(type, key, stage) == [type |-> type, key |-> key, stage |-> stage]

(***************************************************************************)
(* The remap loop, lines 148-160, from item i on; acc is final_result.     *)
(***************************************************************************)
\* lines 150-158 for one key: the new key, None for `continue`, or the error
NewKey(key) ==
    IF Contains(key, "layers") THEN
        LET abstract_key == ReSubDigits(key)
            layer_num == ReSearchDigits(key)
        IN  IF layer_num = <<>> THEN [error |-> Raise("AttributeError", <<>>, "remap"), new_key |-> None]
            ELSE IF abstract_key \notin DOMAIN weight_map
                 THEN [error |-> Raise("KeyError", abstract_key, "remap"), new_key |-> None]
            ELSE [error |-> NoError, new_key |-> Format(weight_map[abstract_key], layer_num[1])]
    ELSE IF key \notin DOMAIN weight_map THEN [error |-> Raise("KeyError", key, "remap"), new_key |-> None]
    ELSE [error |-> NoError, new_key |-> weight_map[key]]

RECURSIVE RemapLoop(_, _, _)
RemapLoop(items, i, acc) ==
    IF i > Len(items) THEN [error |-> NoError, bag |-> acc]
    ELSE LET r == NewKey(items[i][1])
         IN  IF r.error # NoError THEN [error |-> r.error, bag |-> acc]
             ELSE IF r.new_key = None THEN RemapLoop(items, i + 1, acc)
             ELSE RemapLoop(items, i + 1, Set(acc, r.new_key, items[i][2]))

(***************************************************************************)
(* The fuse loop, lines 162-172, over the snapshot tuple(final_result.keys()) *)
(* from key i on; bag is final_result, done the wq keys fused so far.      *)
(***************************************************************************)
\* lines 164-172 for one wq key
\* (a fuse that passes over a layer without its wk or wv)
FuseOneSkipsUnpaired(bag, key) ==
    LET wk == Replace(key, "wk")
        wv == Replace(key, "wv")
    IN  IF ~Has(bag, wk) \/ ~Has(bag, wv) THEN [error |-> NoError, bag |-> bag]
        ELSE [error |-> NoError,
              bag |-> Del(Del(Del(
                        Set(bag, Replace(key, "wqkv"),
                            Cat(Permute(Get(bag, key), config.n_head),
                                Permute(Get(bag, wk), config.n_local_heads), Get(bag, wv))),
                        key), wk), wv)]

\* (a fuse without the three del statements)
FuseOneKeepsSplit(bag, key) ==
    LET wk == Replace(key, "wk")
        wv == Replace(key, "wv")
    IN  IF ~Has(bag, wk) THEN [error |-> Raise("KeyError", wk, "fuse"), bag |-> bag]
        ELSE IF ~Has(bag, wv) THEN [error |-> Raise("KeyError", wv, "fuse"), bag |-> bag]
        ELSE [error |-> NoError,
              bag |-> Set(bag, Replace(key, "wqkv"),
                          Cat(Permute(Get(bag, key), config.n_head),
                              Permute(Get(bag, wk), config.n_local_heads), Get(bag, wv)))]

FuseOne(bag, key) ==
    LET wk == Replace(key, "wk")
        wv == Replace(key, "wv")
    IN  IF ~Has(bag, wk) THEN [error |-> Raise("KeyError", wk, "fuse"), bag |-> bag]
        ELSE IF ~Has(bag, wv) THEN [error |-> Raise("KeyError", wv, "fuse"), bag |-> bag]
        ELSE LET q == Get(bag, key)
                 k == Get(bag, wk)
                 v == Get(bag, wv)
             IN  IF ~ViewOk(q, config.n_head) \/ ~ViewOk(k, config.n_local_heads)
                    \/ ~CatOk(q, k, v)
                 THEN [error |-> Raise("RuntimeError", <<>>, "fuse"), bag |-> bag]
                 ELSE [error |-> NoError,
                       bag |-> Del(Del(Del(
                                 Set(bag, Replace(key, "wqkv"),
                                     Cat(Permute(q, config.n_head),
                                         Permute(k, config.n_local_heads), v)),
                                 key), wk), wv)]

RECURSIVE FuseLoop(_, _, _, _)
FuseLoop(keys, i, bag, done) ==
    IF i > Len(keys) THEN [error |-> NoError, bag |-> bag, fused |-> done]
    ELSE IF Contains(keys[i], "wq") THEN
        LET r == FuseOne(bag, keys[i])
        IN  IF r.error # NoError THEN [error |-> r.error, bag |-> r.bag, fused |-> done]
            ELSE FuseLoop(keys, i + 1, r.bag, Append(done, keys[i]))
    ELSE FuseLoop(keys, i + 1, bag, done)

(***************************************************************************)
(* Model names and ModelArgs.from_name (src/model.py is not part of the    *)
(* sources at hand: the table gives each name the four dimensions the      *)
(* specification says the Arch Config Provider supplies).  A name is the   *)
(* sequence of its "-"-separated tokens.                                   *)
(***************************************************************************)
ModelNames ==
    {<<"Llama", "2", "7b">>, <<"Meta", "Llama", "3", "8B">>, <<"Meta", "Llama", "3.1", "405B">>}

from_name(name) ==
    IF name = <<"Llama", "2", "7b">>
    THEN [dim |-> 2, head_dim |-> 2, n_head |-> 2, n_local_heads |-> 2]
    ELSE IF name = <<"Meta", "Llama", "3", "8B">>
    THEN [dim |-> 1, head_dim |-> 4, n_head |-> 2, n_local_heads |-> 1]
    ELSE [dim |-> 1, head_dim |-> 6, n_head |-> 2, n_local_heads |-> 1]

\* str.lower() on one token
LowerToken(tok) ==
    IF tok = "Llama" THEN "llama"
    ELSE IF tok = "Meta" THEN "meta"
    ELSE IF tok = "8B" THEN "8b"
    ELSE IF tok = "405B" THEN "405b"
    ELSE tok

Lower(name) == [i \in 1..Len(name) |-> LowerToken(name[i])]

\* `"llama-<version>-" in name`: the tokens llama, <version> and a "-" after them
HasFamily(name, version) ==
    \E i \in 1..Len(name) :
        i + 2 <= Len(name) /\ name[i] = "llama" /\ name[i + 1] = version

\* `"llama-3.1-405b" in name`
Has405b(name) ==
    \E i \in 1..Len(name) :
        i + 2 <= Len(name) /\ name[i] = "llama" /\ name[i + 1] = "3.1" /\ name[i + 2] = "405b"

(***************************************************************************)
(* The inputs on disk: shard files and the tensors they hold.              *)
(***************************************************************************)
\* The shard file names an index may name, in the order sorted() gives paths.
ShardSeq == <<"model-00001-of-00001.safetensors", "pytorch_model-00001-of-00001.bin">>

ShardNames == {ShardSeq[i] : i \in 1..Len(ShardSeq)}

FileOrd(file) == CHOOSE i \in 1..Len(ShardSeq) : ShardSeq[i] = file

\* Source keys of layer n
QProj(n) == <<"model", "layers", DigitStr[n + 1], "self_attn", "q_proj", "weight">>
KProj(n) == <<"model", "layers", DigitStr[n + 1], "self_attn", "k_proj", "weight">>
VProj(n) == <<"model", "layers", DigitStr[n + 1], "self_attn", "v_proj", "weight">>

RECURSIVE LayerKeys(_)
LayerKeys(n) == IF n < 0 THEN <<>> ELSE LayerKeys(n - 1) \o <<QProj(n), KProj(n), VProj(n)>>

\* The keys a shard may hold, in the order a shard file lists them: the
\* projection weights of layers 0..MaxLayer, an embedding, a rotary buffer, a
\* literal key without a rule, a layer key without a rule, and a key that
\* contains "layers" and no layer index.
SourceKeySeq ==
    LayerKeys(MaxLayer) \o
    <<  <<"model", "embed_tokens", "weight">>,
        <<"model", "layers", "0", "self_attn", "rotary_emb", "inv_freq">>,
        <<"model", "embed_positions", "weight">>,
        <<"model", "layers", "0", "self_attn", "q_norm", "weight">>,
        <<"model", "layers", "scale">>  >>

SourceKeys == {SourceKeySeq[i] : i \in 1..Len(SourceKeySeq)}

KeyOrd(key) == CHOOSE i \in 1..Len(SourceKeySeq) : SourceKeySeq[i] = key

\* The tensor a shard file holds under a key: the projection weights have the
\* shapes of the configuration, and every element is labelled by its file, key
\* and place, so that no two elements on disk are equal.
ShardTensor(file, key) ==
    LET rows == IF Contains(key, "q_proj") THEN config.n_head * config.head_dim
                ELSE IF Contains(key, "k_proj") \/ Contains(key, "v_proj")
                     THEN config.n_local_heads * config.head_dim
                ELSE 1
    IN  [rows |-> rows, cols |-> config.dim,
         data |-> [i \in 1..(rows * config.dim) |-> FileOrd(file) * 10000 + KeyOrd(key) * 100 + i]]

ShardDict(file, S) ==
    LET ks == SelectSeq(SourceKeySeq, LAMBDA k : k \in S)
    IN  [i \in 1..Len(ks) |-> <<ks[i], ShardTensor(file, ks[i])>>]

KeySubsets == {S \in SUBSET SourceKeys : Cardinality(S) <= MaxShardKeys}

\* The weight_map values of an index file: each shard name at most
\* MaxIndexRefs times, in any order.
Count(seq, x) == Cardinality({i \in 1..Len(seq) : seq[i] = x})

RECURSIVE SeqsUpTo(_)
SeqsUpTo(n) ==
    IF n = 0 THEN {<<>>}
    ELSE LET shorter == SeqsUpTo(n - 1)
         IN  shorter \cup {Append(q, f) : q \in shorter, f \in ShardNames}

IndexValues ==
    {q \in SeqsUpTo(MaxIndexRefs * Len(ShardSeq)) :
        \A f \in ShardNames : Count(q, f) <= MaxIndexRefs}

\* merged_result.update(state_dict)
RECURSIVE Update(_, _, _)
Update(d, other, i) ==
    IF i > Len(other) THEN d
    ELSE Update(Set(d, other[i][1], other[i][2]), other, i + 1)

\* sorted(bin_files), for the set comprehension of line 134
SortedFiles(values) ==
    SelectSeq(ShardSeq, LAMBDA f : \E i \in 1..Len(values) : values[i] = f)

(***************************************************************************)
(* convert_model.  A local the code reads no more is dropped from the      *)
(* state (set back to its initial value) at the step that reads it last.   *)
(***************************************************************************)
Untouched == [state |-> "untouched", bag |-> <<>>]

InitConvert ==
    /\ pc = "start"
    /\ model_name \in ModelNames
    /\ config = from_name(model_name)
    /\ safetensors_is_file = "unchecked"
    /\ pytorch_is_file = "unchecked"
    /\ model_map_json = "None"
    /\ bin_index = <<>>
    /\ bin_files = <<>>
    /\ state_dict = <<>>
    /\ merged_result = <<>>
    /\ final_result = <<>>
    /\ remapped = <<>>
    /\ loaded = <<>>
    /\ fused = <<>>
    /\ model_pth = Untouched
    /\ tokenizer_model = "untouched"
    /\ error = NoError

\* lines 98-111: the primary index if it is a file, else the legacy one if it
\* is a file, else None
\* (a choice that tries the legacy index first)
ChooseIndexLegacyFirst(primary, legacy) ==
    IF legacy = "yes" THEN "pytorch_model.bin.index.json"
    ELSE IF primary = "yes" THEN "model.safetensors.index.json"
    ELSE "None"

ChooseIndex(primary, legacy) ==
    IF primary = "yes" THEN "model.safetensors.index.json"
    ELSE IF legacy = "yes" THEN "pytorch_model.bin.index.json"
    ELSE "None"

\* lines 96-114: the two index files are or are not on disk
ResolveIndex ==
    /\ pc = "start"
    /\ \E primary \in {"yes", "no"}, legacy \in {"yes", "no"} :
        /\ safetensors_is_file' = primary
        /\ pytorch_is_file' = legacy
        /\ model_map_json' = ChooseIndex(primary, legacy)
    /\ IF model_map_json' = "None"
       THEN pc' = "raised" /\ error' = Raise("Exception: No model map found!", <<>>, "resolve")
       ELSE pc' = "index" /\ error' = error
    /\ UNCHANGED <<model_name, config, bin_index, bin_files, state_dict, merged_result,
                   final_result, remapped, loaded, fused, model_pth, tokenizer_model,
                   permuteVars, deviceVars>>

\* lines 116-117: the index file is read
LoadIndex ==
    /\ pc = "index"
    /\ bin_index' \in IndexValues
    /\ pc' = "shards"
    /\ safetensors_is_file' = "unchecked"
    /\ pytorch_is_file' = "unchecked"
    /\ model_map_json' = "None"
    /\ UNCHANGED <<model_name, config, bin_files, state_dict, merged_result, final_result,
                   remapped, loaded, fused, model_pth, tokenizer_model, error,
                   permuteVars, deviceVars>>

\* lines 134 and 141: the distinct shard files, sorted
ShardSet ==
    /\ pc = "shards"
    /\ bin_files' = SortedFiles(bin_index)
    /\ bin_index' = <<>>
    /\ pc' = "merge"
    /\ UNCHANGED <<model_name, config, safetensors_is_file, pytorch_is_file, model_map_json,
                   state_dict, merged_result, final_result, remapped, loaded, fused,
                   model_pth, tokenizer_model, error,
                   permuteVars, deviceVars>>

\* lines 141-147, one iteration: the next file is loaded (by the loader its
\* name selects) and merged
\* (a merge in which the tensor loaded first stays)
MergeFirstWins(d, other) == Update(other, d, 1)

Merge(d, other) == Update(d, other, 1)

LoadShard ==
    /\ pc = "merge"
    /\ bin_files # <<>>
    /\ \E S \in KeySubsets :
        /\ state_dict' = ShardDict(Head(bin_files), S)
        /\ merged_result' = Merge(merged_result, state_dict')
    /\ loaded' = Append(loaded, Head(bin_files))
    /\ bin_files' = Tail(bin_files)
    /\ UNCHANGED <<pc, model_name, config, safetensors_is_file, pytorch_is_file,
                   model_map_json, bin_index, final_result, remapped, fused, model_pth,
                   tokenizer_model, error,
                   permuteVars, deviceVars>>

\* lines 143 and 146: the loader raises on a file it cannot read
LoadShardFails ==
    /\ pc = "merge"
    /\ bin_files # <<>>
    /\ pc' = "raised"
    /\ error' = Raise("ShardLoadError", <<Head(bin_files)>>, "merge")
    /\ UNCHANGED <<model_name, config, safetensors_is_file, pytorch_is_file, model_map_json,
                   bin_index, bin_files, state_dict, merged_result, final_result, remapped,
                   loaded, fused, model_pth, tokenizer_model,
                   permuteVars, deviceVars>>

\* lines 148-160: the whole remap loop
Remap ==
    /\ pc = "merge"
    /\ bin_files = <<>>
    /\ \E r \in {RemapLoop(merged_result, 1, <<>>)} :
           /\ final_result' = r.bag
           /\ error' = r.error
           /\ pc' = IF r.error = NoError THEN "fuse" ELSE "raised"
           /\ remapped' = IF r.error = NoError THEN r.bag ELSE <<>>
    /\ state_dict' = <<>>
    /\ UNCHANGED <<model_name, config, safetensors_is_file, pytorch_is_file, model_map_json,
                   bin_index, bin_files, merged_result, loaded, fused, model_pth,
                   tokenizer_model,
                   permuteVars, deviceVars>>

\* lines 162-172: the whole fuse loop
Fuse ==
    /\ pc = "fuse"
    /\ \E r \in {FuseLoop(Keys(final_result), 1, final_result, <<>>)} :
           /\ final_result' = r.bag
           /\ fused' = r.fused
           /\ error' = r.error
           /\ pc' = IF r.error = NoError THEN "save" ELSE "raised"
    /\ UNCHANGED <<model_name, config, safetensors_is_file, pytorch_is_file, model_map_json,
                   bin_index, bin_files, state_dict, merged_result, remapped, loaded,
                   model_pth, tokenizer_model,
                   permuteVars, deviceVars>>

\* line 173: torch.save writes model.pth in place
Save ==
    /\ pc = "save"
    /\ model_pth' = [state |-> "written", bag |-> final_result]
    /\ pc' = "tokenizer"
    /\ UNCHANGED <<model_name, config, safetensors_is_file, pytorch_is_file, model_map_json,
                   bin_index, bin_files, state_dict, merged_result, final_result, remapped,
                   loaded, fused, tokenizer_model, error,
                   permuteVars, deviceVars>>

\* line 173: torch.save raises after it has opened model.pth for writing
SaveFails ==
    /\ pc = "save"
    /\ model_pth' = [state |-> "partial", bag |-> <<>>]
    /\ pc' = "raised"
    /\ error' = Raise("OSError", <<"model.pth">>, "save")
    /\ UNCHANGED <<model_name, config, safetensors_is_file, pytorch_is_file, model_map_json,
                   bin_index, bin_files, state_dict, merged_result, final_result, remapped,
                   loaded, fused, tokenizer_model,
                   permuteVars, deviceVars>>

\* lines 174-178: the directory the tokenizer is copied from, <<>> for no copy
OriginalDir(name) ==
    IF HasFamily(Lower(name), "3") \/ HasFamily(Lower(name), "3.1")
    THEN IF Has405b(Lower(name)) THEN <<"original", "mp16">> ELSE <<"original">>
    ELSE <<>>

\* line 174: the model is of no family that has a tokenizer to copy
NoTokenizer ==
    /\ pc = "tokenizer"
    /\ OriginalDir(model_name) = <<>>
    /\ pc' = "done"
    /\ UNCHANGED <<model_name, config, safetensors_is_file, pytorch_is_file, model_map_json,
                   bin_index, bin_files, state_dict, merged_result, final_result, remapped,
                   loaded, fused, model_pth, tokenizer_model, error,
                   permuteVars, deviceVars>>

\* lines 174-181: the tokenizer file is where it is looked for
CopyTokenizer ==
    /\ pc = "tokenizer"
    /\ OriginalDir(model_name) # <<>>
    /\ tokenizer_model' = "copied"
    /\ pc' = "done"
    /\ UNCHANGED <<model_name, config, safetensors_is_file, pytorch_is_file, model_map_json,
                   bin_index, bin_files, state_dict, merged_result, final_result, remapped,
                   loaded, fused, model_pth, error,
                   permuteVars, deviceVars>>

\* lines 174-181: shutil.copy raises, the tokenizer file is not there
CopyTokenizerFails ==
    /\ pc = "tokenizer"
    /\ OriginalDir(model_name) # <<>>
    /\ pc' = "raised"
    /\ error' = Raise("FileNotFoundError", OriginalDir(model_name) \o <<"tokenizer.model">>,
                      "tokenizer")
    /\ UNCHANGED <<model_name, config, safetensors_is_file, pytorch_is_file, model_map_json,
                   bin_index, bin_files, state_dict, merged_result, final_result, remapped,
                   loaded, fused, model_pth, tokenizer_model,
                   permuteVars, deviceVars>>

NextConvert ==
    \/ ResolveIndex
    \/ LoadIndex
    \/ ShardSet
    \/ LoadShard
    \/ LoadShardFails
    \/ Remap
    \/ Fuse
    \/ Save
    \/ SaveFails
    \/ NoTokenizer
    \/ CopyTokenizer
    \/ CopyTokenizerFails

(***************************************************************************)
(* The device handle, lines 26-45.  A torch.device is its type and index.  *)
(***************************************************************************)
NoDevice == [type |-> "None", index |-> -1]

DeviceStrings == {"cuda", "cpu", "tpu"}

IdleDevice == _DEVICE = NoDevice /\ first_device = NoDevice /\ returned = <<>>

\* lines 31-37: what _DEVICE becomes when it is None, or the exception
NewDevice(device, local_rank) ==
    IF device = "cuda" THEN [type |-> "cuda", index |-> local_rank]
    ELSE IF device = "cpu" THEN [type |-> "cpu", index |-> -1]
    ELSE [type |-> "NotImplementedError", index |-> -1]

\* lines 29-38: the value setup_device leaves in _DEVICE
\* (a setup_device without the `if _DEVICE is None` guard)
DeviceAfterSetupOverwriting(current, device, local_rank) ==
    IF NewDevice(device, local_rank).type = "NotImplementedError" THEN current
    ELSE NewDevice(device, local_rank)

DeviceAfterSetup(current, device, local_rank) ==
    IF current = NoDevice /\ NewDevice(device, local_rank).type # "NotImplementedError"
    THEN NewDevice(device, local_rank)
    ELSE current

\* lines 29-38: what setup_device returns, or the exception it raises
SetupResult(current, device, local_rank) ==
    IF current = NoDevice THEN NewDevice(device, local_rank) ELSE current

setup_device ==
    /\ Len(returned) < MaxCalls
    /\ \E device \in DeviceStrings, local_rank \in 0..MaxRank :
        /\ _DEVICE' = DeviceAfterSetup(_DEVICE, device, local_rank)
        /\ returned' = Append(returned, [call |-> "setup_device", device |-> device,
                                         before |-> _DEVICE,
                                         result |-> SetupResult(_DEVICE, device, local_rank)])
    /\ first_device' = IF first_device = NoDevice THEN _DEVICE' ELSE first_device
    /\ UNCHANGED <<convertVars, permuteVars>>

\* lines 41-45
GetResult(current) ==
    IF current = NoDevice THEN [type |-> "ValueError", index |-> -1] ELSE current

get_device ==
    /\ Len(returned) < MaxCalls
    /\ returned' = Append(returned, [call |-> "get_device", device |-> "",
                                     before |-> _DEVICE,
                                     result |-> GetResult(_DEVICE)])
    /\ UNCHANGED <<_DEVICE, first_device, convertVars, permuteVars>>

(***************************************************************************)
(* permute as a pure function: a configuration, a head count and a weight  *)
(* of shape (heads * head_dim, dim) whose elements are all different, and  *)
(* permute applied to it again and again.                                  *)
(***************************************************************************)
IdlePermute == w = <<>> /\ w0 = <<>> /\ heads = 0 /\ applied = 0

IdleConvert ==
    /\ pc = "idle"
    /\ model_name = <<>>
    /\ safetensors_is_file = "unchecked"
    /\ pytorch_is_file = "unchecked"
    /\ model_map_json = "None"
    /\ bin_index = <<>>
    /\ bin_files = <<>>
    /\ state_dict = <<>>
    /\ merged_result = <<>>
    /\ final_result = <<>>
    /\ remapped = <<>>
    /\ loaded = <<>>
    /\ fused = <<>>
    /\ model_pth = Untouched
    /\ tokenizer_model = "untouched"
    /\ error = NoError

InitPermute ==
    /\ IdleConvert
    /\ IdleDevice
    /\ \E n_head \in 1..MaxHeads, n_local_heads \in 1..MaxHeads, half \in 1..MaxHalfHeadDim,
          dim \in 1..MaxDim :
        /\ n_local_heads <= n_head
        /\ config = [dim |-> dim, head_dim |-> 2 * half, n_head |-> n_head,
                     n_local_heads |-> n_local_heads]
    /\ heads \in {config.n_head, config.n_local_heads}
    /\ w0 = [rows |-> heads * config.head_dim, cols |-> config.dim,
             data |-> [i \in 1..(heads * config.head_dim * config.dim) |-> i]]
    /\ w = w0
    /\ applied = 0

ApplyPermute ==
    /\ applied < MaxApplied
    /\ ViewOk(w, heads)
    /\ w' = Permute(w, heads)
    /\ applied' = applied + 1
    /\ UNCHANGED <<w0, heads, convertVars, deviceVars>>

Init == InitConvert /\ IdlePermute /\ IdleDevice

Next == NextConvert

Spec == Init /\ [][Next]_vars

NextPermute == ApplyPermute

SpecPermute == InitPermute /\ [][NextPermute]_vars

InitDevice == IdleConvert /\ config = <<>> /\ IdlePermute /\ IdleDevice

NextDevice == setup_device \/ get_device

SpecDevice == InitDevice /\ [][NextDevice]_vars

(***************************************************************************)
(*                              The claims                                 *)
(***************************************************************************)

\* C1 (as claimed): atomicity.  In every run in which a stage has raised,
\* model.pth is as it was before the run: the run has neither created nor
\* overwritten it, in part or in full.
C1_Atomicity == pc = "raised" => model_pth = Untouched

\* C2 (as claimed): permutation involution.  For every head count, every even
\* head_dim and every dim, two applications of permute give the weight back,
\* element for element.
C2_Involution == applied = 2 => w = w0

\* C2 (amended): two applications of permute give the weight back, element
\* for element, when head_dim is 2 or 4.
C2_InvolutionUpTo4 == (applied = 2 /\ config.head_dim <= 4) => w = w0

\* C2 (witness): a weight with head_dim 4 and several heads and columns that
\* one application reorders and the second restores.
C2_Witness ==
    /\ applied = 2
    /\ config.head_dim = 4
    /\ heads = 2
    /\ config.dim = 2
    /\ Permute(w0, heads) # w0
    /\ w = w0

\* Target keys of layer n, and what the claims say of keys and bags.
Wq(n) == <<"layers", DigitStr[n + 1], "attention", "wq", "weight">>
Wk(n) == <<"layers", DigitStr[n + 1], "attention", "wk", "weight">>
Wv(n) == <<"layers", DigitStr[n + 1], "attention", "wv", "weight">>
Wqkv(n) == <<"layers", DigitStr[n + 1], "attention", "wqkv", "weight">>

LayerNums == 0..MaxLayer

\* The rule pattern of a source key: its layer index abstracted, if it has one.
Pattern(key) == IF \E i \in 1..Len(key) : IsDigits(key[i]) THEN ReSubDigits(key) ELSE key

HasRule(key) == Pattern(key) \in DOMAIN weight_map

IsDiscarded(key) == HasRule(key) /\ weight_map[Pattern(key)] = None

\* The layer index a source key carries
LayerIndexOf(key) == key[CHOOSE i \in 1..Len(key) : IsDigits(key[i])]

\* The target key the rule of a source key gives, for a key that has a rule
\* and is not discarded
TargetOf(key) ==
    IF \E i \in 1..Len(key) : IsDigits(key[i])
    THEN [i \in 1..Len(weight_map[Pattern(key)]) |->
            IF weight_map[Pattern(key)][i] = "{}" THEN LayerIndexOf(key)
            ELSE weight_map[Pattern(key)][i]]
    ELSE weight_map[key]

RECURSIVE TotalNumel(_, _)
TotalNumel(d, i) == IF i > Len(d) THEN 0 ELSE Numel(d[i][2]) + TotalNumel(d, i + 1)

\* Row r (from 0) of a tensor
Row(t, r) == SubSeq(t.data, r * t.cols + 1, (r + 1) * t.cols)

\* The row of the paired-half layout that the interleaved layout has at row r:
\* row 2b + a of head h comes from row a * head_dim/2 + b of head h.
PairedHalfRow(r) ==
    LET hd == config.head_dim
    IN  (r \div hd) * hd + ((r % hd) % 2) * (hd \div 2) + ((r % hd) \div 2)

\* The remap loop has run to its end / the fuse loop has run to its end
RemapDone == pc \in {"fuse", "save", "tokenizer", "done"} \/ error.stage \in {"fuse", "save", "tokenizer"}

FuseDone == pc \in {"save", "tokenizer", "done"} \/ error.stage \in {"save", "tokenizer"}

\* C3: fusion layout.  Once the fuse loop has run, for every layer that had
\* wq, wk and wv after remapping, the tensor under wqkv has, in this order,
\* n_head * head_dim rows that are the query weight in interleaved layout,
\* n_local_heads * head_dim rows that are the key weight in interleaved
\* layout, and then the rows of the value weight exactly as loaded.
C3_FusionLayout ==
    FuseDone =>
        \A n \in LayerNums :
            (Has(remapped, Wq(n)) /\ Has(remapped, Wk(n)) /\ Has(remapped, Wv(n))) =>
                /\ Has(final_result, Wqkv(n))
                /\ LET f == Get(final_result, Wqkv(n))
                       q == Get(remapped, Wq(n))
                       k == Get(remapped, Wk(n))
                       v == Get(merged_result, VProj(n))
                       nq == config.n_head * config.head_dim
                       nk == config.n_local_heads * config.head_dim
                   IN  /\ f.cols = config.dim
                       /\ f.rows = nq + nk + v.rows
                       /\ Len(f.data) = f.rows * f.cols
                       /\ \A r \in 0..(nq - 1) : Row(f, r) = Row(q, PairedHalfRow(r))
                       /\ \A r \in 0..(nk - 1) : Row(f, nq + r) = Row(k, PairedHalfRow(r))
                       /\ \A r \in 0..(v.rows - 1) : Row(f, nq + nk + r) = Row(v, r)

\* C3 (witness): a completed run with grouped-query heads and head_dim 6
\* whose checkpoint holds a fused layer.
C3_Witness ==
    /\ pc = "done"
    /\ config.n_head # config.n_local_heads
    /\ config.head_dim = 6
    /\ Has(model_pth.bag, Wqkv(0))
    /\ Get(model_pth.bag, Wqkv(0)).rows = 24

\* C4 (as claimed): remapper coverage.  Once the remap loop has run to its
\* end, every key of the merged bag has a rule, a discarded key has left no
\* tensor behind, and every other key has its tensor under exactly one target
\* key: the target of its rule with the key's own layer index; and when the
\* remap loop raises, the error is a KeyError that names a key of the merged
\* bag that has no rule (the key, or its layer-templated pattern).
C4_Coverage ==
    /\ RemapDone =>
        /\ \A key \in KeySet(merged_result) :
            /\ HasRule(key)
            /\ IsDiscarded(key) =>
                ~\E t \in KeySet(remapped) : Get(remapped, t) = Get(merged_result, key)
            /\ ~IsDiscarded(key) =>
                /\ {t \in KeySet(remapped) : Get(remapped, t) = Get(merged_result, key)}
                     = {TargetOf(key)}
        /\ \A t \in KeySet(remapped) :
            \E key \in KeySet(merged_result) : Get(remapped, t) = Get(merged_result, key)
    /\ error.stage = "remap" =>
        /\ error.type = "KeyError"
        /\ \E key \in KeySet(merged_result) :
            ~HasRule(key) /\ error.key \in {key, Pattern(key)}

\* C4 (what holds): the same, but for a key that contains "layers" and no
\* digit run the remap loop raises an AttributeError that names no key.
C4_CoverageBesidesNoIndex ==
    /\ RemapDone =>
        /\ \A key \in KeySet(merged_result) :
            /\ HasRule(key)
            /\ IsDiscarded(key) =>
                ~\E t \in KeySet(remapped) : Get(remapped, t) = Get(merged_result, key)
            /\ ~IsDiscarded(key) =>
                /\ {t \in KeySet(remapped) : Get(remapped, t) = Get(merged_result, key)}
                     = {TargetOf(key)}
        /\ \A t \in KeySet(remapped) :
            \E key \in KeySet(merged_result) : Get(remapped, t) = Get(merged_result, key)
    /\ error.stage = "remap" =>
        \E key \in KeySet(merged_result) :
            /\ ~HasRule(key)
            /\ \/ error.type = "KeyError" /\ error.key \in {key, Pattern(key)}
               \/ /\ error.type = "AttributeError"
                  /\ Contains(key, "layers")
                  /\ ~\E i \in 1..Len(key) : IsDigits(key[i])

\* The keys of the merged bag that no rule discards
Surviving == {key \in KeySet(merged_result) : ~IsDiscarded(key)}

\* C5: element-count invariance.  The bag written to model.pth has as many
\* elements as the merged bag without its discarded keys; no two surviving
\* keys of the merged bag share a target key; and every fused tensor has as
\* many elements as its query, key and value weights together.
C5_ElementCount ==
    model_pth.state = "written" =>
        /\ TotalNumel(model_pth.bag, 1) =
             TotalNumel(SelectSeq(merged_result, LAMBDA e : e[1] \in Surviving), 1)
        /\ Len(remapped) = Cardinality(Surviving)
        /\ Cardinality(KeySet(remapped)) = Len(remapped)
        /\ Cardinality(KeySet(model_pth.bag)) = Len(model_pth.bag)
        /\ \A n \in LayerNums :
            Has(model_pth.bag, Wqkv(n)) =>
                Numel(Get(model_pth.bag, Wqkv(n))) =
                    Numel(Get(remapped, Wq(n))) + Numel(Get(remapped, Wk(n)))
                    + Numel(Get(remapped, Wv(n)))

\* C5 (witness): a completed run whose merged bag had a discarded rotary
\* buffer and the three projection weights of a layer.
C5_Witness ==
    /\ pc = "done"
    /\ \E key \in KeySet(merged_result) : IsDiscarded(key)
    /\ Has(model_pth.bag, Wqkv(0))
    /\ Len(merged_result) = 4
    /\ Len(model_pth.bag) = 1

\* A key in split query/key/value form
IsSplit(key) == \E i \in 1..Len(key) : key[i] \in {"wq", "wk", "wv"}

\* C6 (as claimed): the consolidated-checkpoint invariant.  Whenever
\* convert_model is at the checkpoint write, the bag it writes holds no wq, wk
\* or wv key of any layer and no discarded key.
C6_Consolidated ==
    pc = "save" =>
        \A key \in KeySet(final_result) :
            /\ ~IsSplit(key)
            /\ ~Contains(key, "inv_freq")

\* Layer n has a wq after remapping and lacks its wk or its wv
Unpaired(n) ==
    Has(remapped, Wq(n)) /\ (~Has(remapped, Wk(n)) \/ ~Has(remapped, Wv(n)))

C8_IndexResolution ==
    /\ pc = "index" =>
        /\ safetensors_is_file = "yes" => model_map_json = "model.safetensors.index.json"
        /\ safetensors_is_file = "no" =>
            pytorch_is_file = "yes" /\ model_map_json = "pytorch_model.bin.index.json"
        /\ model_map_json = "pytorch_model.bin.index.json" => safetensors_is_file = "no"
    /\ (safetensors_is_file = "no" /\ pytorch_is_file = "no") =>
        /\ pc = "raised"
        /\ error = Raise("Exception: No model map found!", <<>>, "resolve")
    /\ error.stage = "resolve" =>
        /\ safetensors_is_file = "no" /\ pytorch_is_file = "no"
        /\ pc = "raised"
        /\ loaded = <<>> /\ merged_result = <<>> /\ state_dict = <<>>
        /\ model_pth = Untouched /\ tokenizer_model = "untouched"

\* C8 (witness): both index files are there and the primary one is chosen.
C8_Witness ==
    /\ pc = "index"
    /\ safetensors_is_file = "yes"
    /\ pytorch_is_file = "yes"
    /\ model_map_json = "model.safetensors.index.json"

\* The files stand in sorted path order, none twice
Ascending(files) ==
    \A i \in 1..Len(files), j \in 1..Len(files) : i < j => FileOrd(files[i]) < FileOrd(files[j])

\* C9: the shard merge policy.  The files to load are the distinct names of
\* the index, each once, in sorted order; every load takes the first file not
\* yet loaded, which comes after all those loaded; after a load the merged bag
\* has the keys it had and those of the shard, one entry a key, with the
\* shard's tensor for every key of the shard and the tensor it had for the
\* others, and no error; and renaming starts only when no file is left.
C9_MergePolicy ==
    [][ /\ (pc = "shards" /\ pc' = "merge") =>
            /\ {bin_files'[i] : i \in 1..Len(bin_files')} = {bin_index[i] : i \in 1..Len(bin_index)}
            /\ Ascending(bin_files')
            /\ loaded' = <<>>
        /\ (pc = "merge" /\ pc' = "merge") =>
            /\ loaded' \o bin_files' = loaded \o bin_files
            /\ Ascending(loaded' \o bin_files')
            /\ Len(loaded') = Len(loaded) + 1
            /\ KeySet(merged_result') = KeySet(merged_result) \cup KeySet(state_dict')
            /\ Len(merged_result') = Cardinality(KeySet(merged_result'))
            /\ \A key \in KeySet(state_dict') :
                Get(merged_result', key) = Get(state_dict', key)
            /\ \A key \in KeySet(merged_result) \ KeySet(state_dict') :
                Get(merged_result', key) = Get(merged_result, key)
            /\ error' = NoError
        /\ (pc = "merge" /\ pc' # "merge" /\ error'.stage # "merge") =>
            /\ bin_files = <<>>
            /\ loaded' = loaded
            /\ merged_result' = merged_result
      ]_vars

\* C9 (witness): two shards are loaded, and a key of the second shard stands
\* in the merged bag before a key that only the first shard has: the key was
\* in both shards, and the merged bag holds the tensor of the second.
C9_Witness ==
    /\ Len(loaded) = 2
    /\ pc = "merge"
    /\ \E i \in 1..Len(merged_result), j \in 1..Len(merged_result) :
        /\ i < j
        /\ Has(state_dict, merged_result[i][1])
        /\ ~Has(state_dict, merged_result[j][1])
        /\ merged_result[i][2] = Get(state_dict, merged_result[i][1])
        /\ merged_result[i][2] = ShardTensor(ShardSeq[2], merged_result[i][1])

\* A result that is a device, not an exception
IsDevice(d) == d.type \in {"cuda", "cpu"}

\* C10: the set-once device handle.  The handle is unset at first, and
\* get_device raises while it is unset; setup_device with an unsupported
\* device string while it is unset raises and leaves it unset; once a
\* setup_device has succeeded the handle is the device that call made, for
\* good, and every later setup_device (whatever its arguments) and get_device
\* returns that device without raising.
C10_SetOnce ==
    /\ returned = <<>> => _DEVICE = NoDevice
    /\ \A i \in 1..Len(returned) :
        LET r == returned[i]
            after == IF i < Len(returned) THEN returned[i + 1].before ELSE _DEVICE
        IN  /\ (r.before = NoDevice /\ r.call = "get_device") =>
                r.result.type = "ValueError" /\ after = NoDevice
            /\ (r.before = NoDevice /\ r.call = "setup_device" /\ r.device \notin {"cuda", "cpu"}) =>
                r.result.type = "NotImplementedError" /\ after = NoDevice
            /\ (r.before = NoDevice /\ r.call = "setup_device" /\ r.device \in {"cuda", "cpu"}) =>
                IsDevice(r.result) /\ r.result.type = r.device /\ after = r.result
            /\ r.before # NoDevice => r.result = r.before /\ after = r.before
    /\ \A i \in 1..Len(returned), j \in 1..Len(returned) :
        (i < j /\ IsDevice(returned[i].result)) => returned[j].result = returned[i].result
    /\ (\E i \in 1..Len(returned) : IsDevice(returned[i].result)) =>
        _DEVICE = first_device /\ IsDevice(_DEVICE)

\* C10 (witness): cuda:1 is set first; a later setup_device("tpu") and a
\* setup_device("cpu") both return cuda:1.
C10_Witness ==
    /\ Len(returned) = 3
    /\ returned[1].call = "setup_device" /\ returned[1].device = "cuda"
    /\ returned[1].result = [type |-> "cuda", index |-> 1]
    /\ returned[2].call = "setup_device" /\ returned[2].device = "tpu"
    /\ returned[2].result = [type |-> "cuda", index |-> 1]
    /\ returned[3].call = "setup_device" /\ returned[3].device = "cpu"
    /\ returned[3].result = [type |-> "cuda", index |-> 1]
    /\ _DEVICE = [type |-> "cuda", index |-> 1]

====
